---------------------------- MODULE Spec2Model ----------------------------
(***************************************************************************)
(* VlessLinker (src/vlesslinker.py): conversion between vless:// URIs,     *)
(* vpn:// containers and Xray-style JSON configurations, driven by the     *)
(* interactive loop of main().                                             *)
(*                                                                         *)
(* Texts and byte buffers are sequences of byte values (ASCII codes).      *)
(* A Python call either returns a value or raises; both are the record     *)
(*   [exc |-> "none", val |-> v]   or   [exc |-> <exception class>,        *)
(*                                       val |-> <what raised it>].        *)
(* JSON values are records [t |-> tag, v |-> payload] with tag one of      *)
(* "dict" (v: sequence of [k, v] pairs in insertion order), "list",        *)
(* "str" (v: bytes), "int", "bool", "null".                                *)
(***************************************************************************)
EXTENDS Integers, Sequences, FiniteSets, TLC

(***************************************************************************)
(* Bounds of the model.                                                    *)
(***************************************************************************)
\* query parameters in one vless:// input
MaxParams == 2
\* payload bytes of the raw base64 round-trip inputs
MaxPayload == 3

---------------------------------------------------------------------------
(***************************************************************************)
(* Text helpers: Python str / bytes primitives used by the source.         *)
(***************************************************************************)
Ascii ==
  << " ", "!", "\"", "#", "$", "%", "&", "'", "(", ")", "*", "+", ",", "-",
     ".", "/", "0", "1", "2", "3", "4", "5", "6", "7", "8", "9", ":", ";",
     "<", "=", ">", "?", "@", "A", "B", "C", "D", "E", "F", "G", "H", "I",
     "J", "K", "L", "M", "N", "O", "P", "Q", "R", "S", "T", "U", "V", "W",
     "X", "Y", "Z", "[", "\\", "]", "^", "_", "grave", "a", "b", "c", "d", "e",
     "f", "g", "h", "i", "j", "k", "l", "m", "n", "o", "p", "q", "r", "s",
     "t", "u", "v", "w", "x", "y", "z", "{", "|", "}", "~" >>

Ord(c) == 31 + (CHOOSE i \in 1..Len(Ascii) : Ascii[i] = c)

\* the bytes of a text written as a tuple of one-character strings
Txt(cs) == [i \in 1..Len(cs) |-> Ord(cs[i])]

Tail2(s, i) == SubSeq(s, i, Len(s))

StartsWith(s, p) == Len(s) >= Len(p) /\ SubSeq(s, 1, Len(p)) = p

EndsWith(s, p) == Len(s) >= Len(p) /\ SubSeq(s, Len(s) - Len(p) + 1, Len(s)) = p

\* str.find: index (from 1) of the first occurrence of byte c, 0 when absent
Find(s, c) ==
  IF \E i \in 1..Len(s) : s[i] = c
  THEN CHOOSE i \in 1..Len(s) : s[i] = c /\ \A j \in 1..(i - 1) : s[j] # c
  ELSE 0

\* str.rfind
RFind(s, c) ==
  IF \E i \in 1..Len(s) : s[i] = c
  THEN CHOOSE i \in 1..Len(s) : s[i] = c /\ \A j \in (i + 1)..Len(s) : s[j] # c
  ELSE 0

IsSpace(b) == b \in {9, 10, 11, 12, 13, 32}

RECURSIVE LStrip(_)
LStrip(s) == IF s # << >> /\ IsSpace(s[1]) THEN LStrip(Tail(s)) ELSE s

RECURSIVE RStrip(_)
RStrip(s) ==
  IF s # << >> /\ IsSpace(s[Len(s)]) THEN RStrip(SubSeq(s, 1, Len(s) - 1)) ELSE s

\* str.strip()
Strip(s) == RStrip(LStrip(s))

\* str.lower() on ASCII text
LowerByte(b) == IF b >= 65 /\ b <= 90 THEN b + 32 ELSE b

Lower(s) == [i \in 1..Len(s) |-> LowerByte(s[i])]

IsDigit(b) == b >= 48 /\ b <= 57

\* int() of a non-empty text of ASCII digits
RECURSIVE IntOf(_)
IntOf(s) ==
  IF s = << >> THEN 0 ELSE 10 * IntOf(SubSeq(s, 1, Len(s) - 1)) + (s[Len(s)] - 48)

\* str() of a natural number
RECURSIVE StrOfNat(_)
StrOfNat(n) ==
  IF n < 10 THEN << 48 + n >> ELSE StrOfNat(n \div 10) \o << 48 + (n % 10) >>

\* str.split(sep) for a one-byte separator
RECURSIVE Split(_, _)
Split(s, c) ==
  LET i == Find(s, c)
  IN  IF i = 0 THEN << s >>
      ELSE << SubSeq(s, 1, i - 1) >> \o Split(Tail2(s, i + 1), c)

\* a loop over the bytes s[lo..hi] with body step, from state st.  The range
\* is halved and the first half is evaluated (the test left = left) before
\* the second starts, so that the evaluation nests only logarithmically deep
RECURSIVE ForEach(_, _, _, _, _)
ForEach(step(_, _), s, lo, hi, st) ==
  IF lo > hi THEN st
  ELSE IF lo = hi THEN step(st, s[lo])
  ELSE LET mid == (lo + hi) \div 2
           left == ForEach(step, s, lo, mid, st)
       IN  IF left = left THEN ForEach(step, s, mid + 1, hi, left) ELSE st

\* f applied to v: v is evaluated once however often f uses it
Bind(v, f(_)) == f(v)

Return(v) == [exc |-> "none", val |-> v]

Raise(e, what) == [exc |-> e, val |-> what]

\* f(r.val) when r returned, else r: the rest of a try body after a raise
Then(r, f(_)) == IF r.exc = "none" THEN f(r.val) ELSE r

\* Python's None, as a value of the model
None == [t |-> "null", v |-> 0]

---------------------------------------------------------------------------
(***************************************************************************)
(* String literals and JSON values.                                        *)
(***************************************************************************)
JStr(s) == [t |-> "str", v |-> s]

JInt(n) == [t |-> "int", v |-> n]

JBool(b) == [t |-> "bool", v |-> b]

JList(items) == [t |-> "list", v |-> items]

\* a dict from a sequence of << key, value >> tuples
JDict(kvs) == [t |-> "dict", v |-> [i \in 1..Len(kvs) |-> [k |-> kvs[i][1], v |-> kvs[i][2]]]]

IsDict(x) == x.t = "dict"

IsList(x) == x.t = "list"

IsStr(x) == x.t = "str"

\* key in dict
HasKey(d, key) == \E i \in 1..Len(d.v) : d.v[i].k = key

\* dict[key] of a key that is present
Item(d, key) == d.v[CHOOSE i \in 1..Len(d.v) : d.v[i].k = key].v

\* dict.get(key, default)
Get(d, key, default) == IF HasKey(d, key) THEN Item(d, key) ELSE default

\* dict[key] = value: replaces in place, or appends
SetItem(d, key, value) ==
  IF HasKey(d, key)
  THEN [t |-> "dict",
        v |-> [i \in 1..Len(d.v) |->
                 IF d.v[i].k = key THEN [k |-> key, v |-> value] ELSE d.v[i]]]
  ELSE [t |-> "dict", v |-> Append(d.v, [k |-> key, v |-> value])]

\* bool(x): Python truthiness, as tested by "if x:"
Truthy(x) ==
  CASE x.t = "str" -> x.v # << >>
    [] x.t = "int" -> x.v # 0
    [] x.t = "bool" -> x.v
    [] x.t = "null" -> FALSE
    [] x.t = "list" -> x.v # << >>
    [] x.t = "dict" -> x.v # << >>

\* what an f-string writes for a scalar x; containers are written by repr,
\* which the model leaves out (no input of the model formats a container)
Format(x) ==
  CASE x.t = "str" -> x.v
    [] x.t = "int" -> IF x.v < 0 THEN << 45 >> \o StrOfNat(0 - x.v) ELSE StrOfNat(x.v)
    [] x.t = "bool" -> IF x.v THEN Txt(<< "T", "r", "u", "e" >>) ELSE Txt(<< "F", "a", "l", "s", "e" >>)
    [] x.t = "null" -> Txt(<< "N", "o", "n", "e" >>)
    [] OTHER -> << 63 >>

---------------------------------------------------------------------------
(***************************************************************************)
(* urllib.parse, as from_vless_url uses it: urlparse, the username,        *)
(* hostname and port attributes of its result, and parse_qs.  Texts with   *)
(* '[' or ']' (IPv6 literals) and bytes above 127 are outside the model.   *)
(***************************************************************************)
IsAlpha(b) == (b >= 65 /\ b <= 90) \/ (b >= 97 /\ b <= 122)

\* urllib.parse.scheme_chars
IsSchemeChar(b) == IsAlpha(b) \/ IsDigit(b) \/ b \in {43, 45, 46}

RECURSIVE LStripC0(_)
LStripC0(s) == IF s # << >> /\ s[1] <= 32 THEN LStripC0(Tail(s)) ELSE s

\* str.partition(c): << head, found, tail >>
Partition(s, c) ==
  LET i == Find(s, c)
  IN  IF i = 0 THEN << s, FALSE, << >> >>
      ELSE << SubSeq(s, 1, i - 1), TRUE, Tail2(s, i + 1) >>

\* str.rpartition(c): << head, found, tail >>
RPartition(s, c) ==
  LET i == RFind(s, c)
  IN  IF i = 0 THEN << << >>, FALSE, s >>
      ELSE << SubSeq(s, 1, i - 1), TRUE, Tail2(s, i + 1) >>

\* urlsplit: scheme, netloc, path, query and fragment of a URL
urlparse(url0) ==
  LET url1 == SelectSeq(LStripC0(url0), LAMBDA b : b \notin {9, 10, 13})
      i == Find(url1, 58)
      hasScheme == i > 1 /\ IsAlpha(url1[1])
                   /\ \A j \in 1..(i - 1) : IsSchemeChar(url1[j])
      scheme == IF hasScheme THEN Lower(SubSeq(url1, 1, i - 1)) ELSE << >>
      url2 == IF hasScheme THEN Tail2(url1, i + 1) ELSE url1
      hasNetloc == Len(url2) >= 2 /\ url2[1] = 47 /\ url2[2] = 47
      \* _splitnetloc: the netloc ends at the first of '/', '?', '#'
      ends == {j \in 3..Len(url2) : url2[j] \in {47, 63, 35}}
      delim == IF ends = {} THEN Len(url2) + 1
               ELSE CHOOSE j \in ends : \A k \in ends : j <= k
      netloc == IF hasNetloc THEN SubSeq(url2, 3, delim - 1) ELSE << >>
      url3 == IF hasNetloc THEN Tail2(url2, delim) ELSE url2
      frag == Partition(url3, 35)
      qry == Partition(frag[1], 63)
  IN  [scheme |-> scheme, netloc |-> netloc, path |-> qry[1],
       query |-> qry[3], fragment |-> frag[3]]

\* ParseResult.username: None without an '@'
username(parsed) ==
  LET ui == RPartition(parsed.netloc, 64)
  IN  IF ui[2] THEN JStr(Partition(ui[1], 58)[1]) ELSE None

\* ParseResult._hostinfo: << hostname, port >> texts
hostinfo(parsed) ==
  LET hp == Partition(RPartition(parsed.netloc, 64)[3], 58)
  IN  << hp[1], hp[3] >>

\* ParseResult.hostname: lower-cased up to a '%', None when empty
hostname(parsed) ==
  LET h == hostinfo(parsed)[1]
      z == Partition(h, 37)
  IN  IF h = << >> THEN None
      ELSE JStr(Lower(z[1]) \o (IF z[2] THEN << 37 >> ELSE << >>) \o z[3])

\* ParseResult.port: None when empty, else an integer in 0..65535 or ValueError
port_of(parsed) ==
  LET p == hostinfo(parsed)[2]
  IN  IF p = << >> THEN Return(None)
      ELSE IF \A j \in 1..Len(p) : IsDigit(p[j])
      THEN IF IntOf(p) <= 65535 THEN Return(JInt(IntOf(p)))
           ELSE Raise("ValueError", "Port out of range 0-65535")
      ELSE Raise("ValueError", "Port could not be cast to integer value")

\* a variant of int_of that takes an absent port for port 0
int_or_zero(x) == IF x.t = "int" THEN Return(x) ELSE Return([t |-> "int", v |-> 0])

\* int(x) of what ParseResult.port returned
int_of(x) ==
  IF x.t = "int" THEN Return(x)
  ELSE Raise("TypeError", "int() argument must be a string, a bytes-like object or a real number")

HexVal(b) ==
  IF IsDigit(b) THEN b - 48
  ELSE IF b >= 65 /\ b <= 70 THEN b - 55
  ELSE IF b >= 97 /\ b <= 102 THEN b - 87
  ELSE 16

\* urllib.parse.unquote: %XX becomes the byte XX, anything else is kept
RECURSIVE unquote(_)
unquote(s) ==
  IF s = << >> THEN << >>
  ELSE IF s[1] = 37 /\ Len(s) >= 3 /\ HexVal(s[2]) < 16 /\ HexVal(s[3]) < 16
  THEN << 16 * HexVal(s[2]) + HexVal(s[3]) >> \o unquote(Tail2(s, 4))
  ELSE << s[1] >> \o unquote(Tail(s))

PlusToSpace(s) == [i \in 1..Len(s) |-> IF s[i] = 43 THEN 32 ELSE s[i]]

\* parse_qsl with its defaults (keep_blank_values=False, separator '&'):
\* the << name, value >> pairs, in order, of the fields with a non-empty value
RECURSIVE QslOf(_)
QslOf(fields) ==
  IF fields = << >> THEN << >>
  ELSE LET nv == Partition(fields[1], 61)
       IN  (IF nv[2] /\ nv[3] # << >>
            THEN << << unquote(PlusToSpace(nv[1])), unquote(PlusToSpace(nv[3])) >> >>
            ELSE << >>)
           \o QslOf(Tail(fields))

parse_qsl(qs) == IF qs = << >> THEN << >> ELSE QslOf(Split(qs, 38))

\* a variant of QsFirst in which the last value of a repeated name wins
QsLast(qs, name, default) ==
  LET pairs == parse_qsl(qs)
      hits == {i \in 1..Len(pairs) : pairs[i][1] = name}
  IN  IF hits = {} THEN default
      ELSE pairs[CHOOSE i \in hits : \A j \in hits : i >= j][2]

\* parse_qs(qs).get(name, [default])[0]
QsFirst(qs, name, default) ==
  LET pairs == parse_qsl(qs)
      hits == {i \in 1..Len(pairs) : pairs[i][1] = name}
  IN  IF hits = {} THEN default
      ELSE pairs[CHOOSE i \in hits : \A j \in hits : i <= j][2]

---------------------------------------------------------------------------
(***************************************************************************)
(* from_vless_url (lines 67-125)                                           *)
(***************************************************************************)
\* the configuration from_vless_url builds around an outbound
ConfigOf(uuid, address, port, q) ==
  JDict(<<
    << Txt(<< "i", "n", "b", "o", "u", "n", "d", "s" >>), JList(<< JDict(<<
         << Txt(<< "l", "i", "s", "t", "e", "n" >>), JStr(Txt(<< "1", "2", "7", ".", "0", ".", "0", ".", "1" >>)) >>,
         << Txt(<< "p", "o", "r", "t" >>), JInt(10808) >>,
         << Txt(<< "p", "r", "o", "t", "o", "c", "o", "l" >>), JStr(Txt(<< "s", "o", "c", "k", "s" >>)) >>,
         << Txt(<< "s", "e", "t", "t", "i", "n", "g", "s" >>), JDict(<< << Txt(<< "u", "d", "p" >>), JBool(TRUE) >> >>) >> >>) >>) >>,
    << Txt(<< "l", "o", "g" >>), JDict(<< << Txt(<< "l", "o", "g", "l", "e", "v", "e", "l" >>), JStr(Txt(<< "e", "r", "r", "o", "r" >>)) >> >>) >>,
    << Txt(<< "o", "u", "t", "b", "o", "u", "n", "d", "s" >>), JList(<< JDict(<<
         << Txt(<< "p", "r", "o", "t", "o", "c", "o", "l" >>), JStr(Txt(<< "v", "l", "e", "s", "s" >>)) >>,
         << Txt(<< "s", "e", "t", "t", "i", "n", "g", "s" >>), JDict(<< << Txt(<< "v", "n", "e", "x", "t" >>), JList(<< JDict(<<
              << Txt(<< "a", "d", "d", "r", "e", "s", "s" >>), address >>,
              << Txt(<< "p", "o", "r", "t" >>), port >>,
              << Txt(<< "u", "s", "e", "r", "s" >>), JList(<< JDict(<<
                   << Txt(<< "i", "d" >>), uuid >>,
                   << Txt(<< "e", "n", "c", "r", "y", "p", "t", "i", "o", "n" >>), JStr(Txt(<< "n", "o", "n", "e" >>)) >>,
                   << Txt(<< "f", "l", "o", "w" >>), JStr(q.flow) >> >>) >>) >> >>) >>) >> >>) >>,
         << Txt(<< "s", "t", "r", "e", "a", "m", "S", "e", "t", "t", "i", "n", "g", "s" >>), JDict(<<
              << Txt(<< "n", "e", "t", "w", "o", "r", "k" >>), JStr(q.network) >>,
              << Txt(<< "s", "e", "c", "u", "r", "i", "t", "y" >>), JStr(q.security) >>,
              << Txt(<< "r", "e", "a", "l", "i", "t", "y", "S", "e", "t", "t", "i", "n", "g", "s" >>), JDict(<<
                   << Txt(<< "s", "e", "r", "v", "e", "r", "N", "a", "m", "e" >>), JStr(q.server_name) >>,
                   << Txt(<< "f", "i", "n", "g", "e", "r", "p", "r", "i", "n", "t" >>), JStr(q.fingerprint) >>,
                   << Txt(<< "p", "u", "b", "l", "i", "c", "K", "e", "y" >>), JStr(q.public_key) >>,
                   << Txt(<< "s", "h", "o", "r", "t", "I", "d" >>), JStr(q.short_id) >>,
                   << Txt(<< "s", "p", "i", "d", "e", "r", "X" >>), JStr(q.spiderx) >> >>) >> >>) >> >>) >>) >>
  >>)

\* the eight query parameters read at lines 75-82
QueryFields(query) ==
  [network |-> QsFirst(query, Txt(<< "t", "y", "p", "e" >>), Txt(<< "t", "c", "p" >>)),
   security |-> QsFirst(query, Txt(<< "s", "e", "c", "u", "r", "i", "t", "y" >>), Txt(<< "n", "o", "n", "e" >>)),
   public_key |-> QsFirst(query, Txt(<< "p", "b", "k" >>), << >>),
   server_name |-> QsFirst(query, Txt(<< "s", "n", "i" >>), << >>),
   fingerprint |-> QsFirst(query, Txt(<< "f", "p" >>), << >>),
   short_id |-> QsFirst(query, Txt(<< "s", "i", "d" >>), << >>),
   flow |-> QsFirst(query, Txt(<< "f", "l", "o", "w" >>), << >>),
   spiderx |-> QsFirst(query, Txt(<< "s", "p", "x" >>), << >>)]

from_vless_url(vless_url) ==
  Bind(urlparse(vless_url),
       LAMBDA parsed :
         Then(Then(port_of(parsed), int_of),
              LAMBDA port :
                Return(ConfigOf(username(parsed), hostname(parsed), port,
                                QueryFields(parsed.query)))))

---------------------------------------------------------------------------
(***************************************************************************)
(* json.loads, for the JSON texts of the model: objects, arrays, strings   *)
(* with the one-character escapes, integers and the three literals.        *)
(* \uXXXX escapes, fractions, exponents, NaN and Infinity are outside the  *)
(* model and yield the exception "Unmodelled", which no input reaches.     *)
(* A parse step returns [exc, val, pos]: pos is the index after the value. *)
(***************************************************************************)
IsJsonWs(b) == b \in {32, 9, 10, 13}

RECURSIVE SkipWs(_, _)
SkipWs(s, i) == IF i <= Len(s) /\ IsJsonWs(s[i]) THEN SkipWs(s, i + 1) ELSE i

At(s, i) == IF i <= Len(s) THEN s[i] ELSE 0 - 1

Parsed(v, i) == [exc |-> "none", val |-> v, pos |-> i]

ParseError(what, i) == [exc |-> "JSONDecodeError", val |-> what, pos |-> i]

ParseUnmodelled(i) == [exc |-> "Unmodelled", val |-> "outside the model", pos |-> i]

EscapeByte(b) ==
  CASE b = 34 -> 34
    [] b = 92 -> 92
    [] b = 47 -> 47
    [] b = 98 -> 8
    [] b = 102 -> 12
    [] b = 110 -> 10
    [] b = 114 -> 13
    [] b = 116 -> 9
    [] OTHER -> 0 - 1

\* one byte of the content of a string literal: acc is the text so far, esc
\* whether the byte follows a backslash, exc the first error met
string_step(st, c) ==
  IF st.exc # "none" THEN st
  ELSE IF st.esc
  THEN (IF c = 117 THEN [st EXCEPT !.exc = "Unmodelled"]
        ELSE IF EscapeByte(c) < 0 THEN [st EXCEPT !.exc = "JSONDecodeError"]
        ELSE [st EXCEPT !.esc = FALSE, !.acc = Append(@, EscapeByte(c))])
  ELSE IF c = 92 THEN [st EXCEPT !.esc = TRUE]
  ELSE IF c < 32 THEN [st EXCEPT !.exc = "JSONDecodeError"]
  ELSE [st EXCEPT !.acc = Append(@, c)]

\* the number of backslashes that end at position j, counted back to i
RECURSIVE BackslashRun(_, _, _)
BackslashRun(s, i, j) ==
  IF j >= i /\ s[j] = 92 THEN 1 + BackslashRun(s, i, j - 1) ELSE 0

\* json.decoder.py_scanstring (strict): s[i] is the byte after the opening
\* quote; the literal ends at the first quote that no backslash escapes
ScanString(s, i) ==
  LET Closes(j) == s[j] = 34 /\ BackslashRun(s, i, j - 1) % 2 = 0
      close == CHOOSE j \in i..Len(s) : Closes(j) /\ \A k \in i..(j - 1) : ~Closes(k)
  IN  IF \A j \in i..Len(s) : ~Closes(j) THEN ParseError("Unterminated string", i)
      ELSE Bind(ForEach(string_step, s, i, close - 1,
                        [acc |-> << >>, esc |-> FALSE, exc |-> "none"]),
                LAMBDA st :
                  IF st.exc = "Unmodelled" THEN ParseUnmodelled(i)
                  ELSE IF st.exc # "none" THEN ParseError("Invalid string", i)
                  ELSE Parsed(st.acc, close + 1))

RECURSIVE DigitsEnd(_, _)
DigitsEnd(s, i) == IF i <= Len(s) /\ IsDigit(s[i]) THEN DigitsEnd(s, i + 1) ELSE i

\* NUMBER_RE of json.scanner: -?(0|[1-9]\d*), s[i] being '-' or a digit
ScanNumber(s, i) ==
  LET neg == s[i] = 45
      d == IF neg THEN i + 1 ELSE i
      e == IF At(s, d) = 48 THEN d + 1 ELSE DigitsEnd(s, d)
      n == IntOf(SubSeq(s, d, e - 1))
  IN  IF e = d
      THEN (IF At(s, d) \in {73, 78} THEN ParseUnmodelled(i)
            ELSE ParseError("Expecting value", i))
      ELSE IF At(s, e) \in {46, 69, 101} THEN ParseUnmodelled(i)
      ELSE Parsed(JInt(IF neg THEN 0 - n ELSE n), e)

RECURSIVE ScanOnce(_, _), ScanArray(_, _, _), ScanObject(_, _, _)

\* json.scanner.py_make_scanner._scan_once
ScanOnce(s, i) ==
  LET c == At(s, i)
  IN  CASE c = 34 ->
             Bind(ScanString(s, i + 1),
                  LAMBDA r : IF r.exc = "none" THEN Parsed(JStr(r.val), r.pos) ELSE r)
        [] c = 123 ->
             LET j == SkipWs(s, i + 1)
             IN  IF At(s, j) = 125 THEN Parsed(JDict(<< >>), j + 1)
                 ELSE ScanObject(s, j, JDict(<< >>))
        [] c = 91 ->
             LET j == SkipWs(s, i + 1)
             IN  IF At(s, j) = 93 THEN Parsed(JList(<< >>), j + 1)
                 ELSE ScanArray(s, j, << >>)
        [] c = 110 /\ StartsWith(Tail2(s, i), Txt(<< "n", "u", "l", "l" >>)) -> Parsed(None, i + 4)
        [] c = 116 /\ StartsWith(Tail2(s, i), Txt(<< "t", "r", "u", "e" >>)) -> Parsed(JBool(TRUE), i + 4)
        [] c = 102 /\ StartsWith(Tail2(s, i), Txt(<< "f", "a", "l", "s", "e" >>)) -> Parsed(JBool(FALSE), i + 5)
        [] c = 45 \/ (c >= 48 /\ c <= 57) -> ScanNumber(s, i)
        [] c \in {73, 78} -> ParseUnmodelled(i)
        [] OTHER -> ParseError("Expecting value", i)

\* json.decoder.JSONArray: s[i] starts an element, acc holds those before it
ScanArray(s, i, acc) ==
  Bind(ScanOnce(s, i),
       LAMBDA r :
         IF r.exc # "none" THEN r
         ELSE LET j == SkipWs(s, r.pos)
              IN  IF At(s, j) = 93 THEN Parsed(JList(Append(acc, r.val)), j + 1)
                  ELSE IF At(s, j) = 44
                  THEN ScanArray(s, SkipWs(s, j + 1), Append(acc, r.val))
                  ELSE ParseError("Expecting ',' delimiter", j))

\* json.decoder.JSONObject: s[i] is expected to open a key, acc is the dict so far
ScanObject(s, i, acc) ==
  IF At(s, i) # 34
  THEN ParseError("Expecting property name enclosed in double quotes", i)
  ELSE Bind(ScanString(s, i + 1),
            LAMBDA k :
              IF k.exc # "none" THEN k
              ELSE LET c == SkipWs(s, k.pos)
                   IN  IF At(s, c) # 58 THEN ParseError("Expecting ':' delimiter", c)
                       ELSE Bind(ScanOnce(s, SkipWs(s, c + 1)),
                                 LAMBDA r :
                                   IF r.exc # "none" THEN r
                                   ELSE LET j == SkipWs(s, r.pos)
                                        IN  IF At(s, j) = 125
                                            THEN Parsed(SetItem(acc, k.val, r.val), j + 1)
                                            ELSE IF At(s, j) = 44
                                            THEN ScanObject(s, SkipWs(s, j + 1),
                                                            SetItem(acc, k.val, r.val))
                                            ELSE ParseError("Expecting ',' delimiter", j)))

\* json.loads of a str: one value between optional whitespace
json_loads_text(s) ==
  Bind(ScanOnce(s, SkipWs(s, 1)),
       LAMBDA r :
         IF r.exc # "none" THEN Raise(r.exc, r.val)
         ELSE IF SkipWs(s, r.pos) # Len(s) + 1 THEN Raise("JSONDecodeError", "Extra data")
         ELSE Return(r.val))

\* json.loads(x) of a value x of the program: only a str is parsed
json_loads(x) ==
  IF IsStr(x) THEN json_loads_text(x.v)
  ELSE Raise("TypeError", "the JSON object must be str, bytes or bytearray")

\* one byte of a UTF-8 decoder: need is the number of continuation bytes still
\* expected, lo..hi the range allowed for the next one, bad whether an invalid
\* byte was met
utf8_step(st, c) ==
  IF st.bad THEN st
  ELSE IF st.need > 0
  THEN (IF c >= st.lo /\ c <= st.hi
        THEN [need |-> st.need - 1, lo |-> 128, hi |-> 191, bad |-> FALSE]
        ELSE [st EXCEPT !.bad = TRUE])
  ELSE IF c < 128 THEN st
  ELSE IF c >= 194 /\ c <= 244
  THEN [need |-> IF c <= 223 THEN 1 ELSE IF c <= 239 THEN 2 ELSE 3,
        lo |-> IF c = 224 THEN 160 ELSE IF c = 240 THEN 144 ELSE 128,
        hi |-> IF c = 237 THEN 159 ELSE IF c = 244 THEN 143 ELSE 191,
        bad |-> FALSE]
  ELSE [st EXCEPT !.bad = TRUE]

Utf8Valid(b) ==
  LET st == ForEach(utf8_step, b, 1, Len(b),
                    [need |-> 0, lo |-> 128, hi |-> 191, bad |-> FALSE])
  IN  ~st.bad /\ st.need = 0

\* bytes.decode('utf-8'): the text, or UnicodeDecodeError
decode_utf8(b) ==
  IF Utf8Valid(b) THEN Return(b)
  ELSE Raise("UnicodeDecodeError", "invalid utf-8")

---------------------------------------------------------------------------
(***************************************************************************)
(* base64.urlsafe_b64decode and zlib.decompress, as decode_vpn_url uses    *)
(* them.  zlib streams of the model hold stored (uncompressed) deflate     *)
(* blocks; a Huffman-coded block yields "Unmodelled", which no input       *)
(* reaches.                                                                *)
(***************************************************************************)
\* binascii's table_a2b_base64 after the urlsafe translation of '-' and '_':
\* the 6-bit value of an alphabet byte, 64 for any other byte
B64Value(c) ==
  IF c >= 65 /\ c <= 90 THEN c - 65
  ELSE IF c >= 97 /\ c <= 122 THEN c - 71
  ELSE IF c >= 48 /\ c <= 57 THEN c + 4
  ELSE IF c \in {43, 45} THEN 62
  ELSE IF c \in {47, 95} THEN 63
  ELSE 64

\* the body of the loop of binascii.a2b_base64 (not strict) for input byte c:
\* quad_pos is the position in the current group of four, leftchar the bits
\* carried over, pads the '=' seen since the last alphabet byte, out the
\* bytes decoded, done whether a complete pad sequence ended the parse
a2b_step(st, c) ==
  IF st.done THEN st
  ELSE IF c = 61
  THEN (IF st.quad_pos >= 2 /\ st.quad_pos + st.pads + 1 >= 4
        THEN [st EXCEPT !.done = TRUE]
        ELSE IF st.quad_pos >= 2 THEN [st EXCEPT !.pads = @ + 1] ELSE st)
  ELSE LET v == B64Value(c)
       IN  IF v >= 64 THEN st
           ELSE CASE st.quad_pos = 0 ->
                       [st EXCEPT !.quad_pos = 1, !.leftchar = v, !.pads = 0]
                  [] st.quad_pos = 1 ->
                       [st EXCEPT !.quad_pos = 2, !.leftchar = v % 16, !.pads = 0,
                                  !.out = Append(@, st.leftchar * 4 + (v \div 16))]
                  [] st.quad_pos = 2 ->
                       [st EXCEPT !.quad_pos = 3, !.leftchar = v % 4, !.pads = 0,
                                  !.out = Append(@, st.leftchar * 16 + (v \div 4))]
                  [] st.quad_pos = 3 ->
                       [st EXCEPT !.quad_pos = 0, !.leftchar = 0, !.pads = 0,
                                  !.out = Append(@, st.leftchar * 64 + v)]

\* binascii.a2b_base64 (not strict)
a2b_base64(s) ==
  LET st == ForEach(a2b_step, s, 1, Len(s),
                    [quad_pos |-> 0, leftchar |-> 0, pads |-> 0, out |-> << >>,
                     done |-> FALSE])
  IN  IF st.done \/ st.quad_pos = 0 THEN Return(st.out)
      ELSE IF st.quad_pos = 1
      THEN Raise("binascii.Error", "number of data characters cannot be 1 more than a multiple of 4")
      ELSE Raise("binascii.Error", "Incorrect padding")

\* base64.urlsafe_b64decode of a str: ASCII only, then a2b_base64
urlsafe_b64decode(s) ==
  IF \E i \in 1..Len(s) : s[i] > 127
  THEN Raise("ValueError", "string argument should contain only ASCII characters")
  ELSE a2b_base64(s)

\* a variant of from_bytes_big that reads the least significant byte first
from_bytes_little(b) == << 256 * b[4] + b[3], 256 * b[2] + b[1] >>

\* int.from_bytes(b, 'big') of four bytes, an unsigned 32-bit value, as the
\* pair << high 16 bits, low 16 bits >>
from_bytes_big(b) == << 256 * b[1] + b[2], 256 * b[3] + b[4] >>

\* n == x for a length n and a 32-bit value x
EqualsLength(n, x) == x = << n \div 65536, n % 65536 >>

\* the Adler-32 checksum zlib keeps of the decompressed bytes: << a, b >>
adler_step(p, c) ==
  LET a == (p[1] + c) % 65521
  IN  << a, (p[2] + a) % 65521 >>

Adler(data) == ForEach(adler_step, data, 1, Len(data), << 1, 0 >>)

\* b in the high half, a in the low half
Adler32(data) == << Adler(data)[2], Adler(data)[1] >>

ZlibError(what) == Raise("zlib.error", what)

\* inflate: the deflate blocks from byte i on, out being the output so far
RECURSIVE InflateBlocks(_, _, _)
InflateBlocks(b, i, out) ==
  IF i > Len(b) THEN ZlibError("incomplete or truncated stream")
  ELSE LET bfinal == b[i] % 2
           btype == (b[i] \div 2) % 4
           len == b[i + 1] + 256 * b[i + 2]
           nlen == b[i + 3] + 256 * b[i + 4]
           data == SubSeq(b, i + 5, i + 4 + len)
           all == out \o data
           sum == i + 5 + len
       IN  IF btype = 3 THEN ZlibError("invalid block type")
           ELSE IF btype # 0 THEN Raise("Unmodelled", "Huffman-coded block")
           ELSE IF i + 4 > Len(b) THEN ZlibError("incomplete or truncated stream")
           ELSE IF len + nlen # 65535 THEN ZlibError("invalid stored block lengths")
           ELSE IF i + 4 + len > Len(b) THEN ZlibError("incomplete or truncated stream")
           ELSE IF bfinal = 0 THEN InflateBlocks(b, sum, all)
           ELSE IF sum + 3 > Len(b) THEN ZlibError("incomplete or truncated stream")
           ELSE IF from_bytes_big(SubSeq(b, sum, sum + 3)) # Adler32(all)
           THEN ZlibError("incorrect data check")
           ELSE Return(all)

\* zlib.decompress(b) with its defaults: a zlib header, deflate blocks, the
\* Adler-32 of the output; bytes after the end of the stream are ignored
zlib_decompress(b) ==
  IF Len(b) < 2 THEN ZlibError("incomplete or truncated stream")
  ELSE IF \/ (b[1] * 256 + b[2]) % 31 # 0
          \/ b[1] % 16 # 8
          \/ b[1] \div 16 > 7
  THEN ZlibError("incorrect header check")
  ELSE IF (b[2] \div 32) % 2 = 1 THEN ZlibError("need dictionary")
  ELSE InflateBlocks(b, 3, << >>)

---------------------------------------------------------------------------
(***************************************************************************)
(* decode_vpn_url (lines 15-65), in the order of its steps.                *)
(***************************************************************************)
IsValueError(e) ==
  e \in {"ValueError", "JSONDecodeError", "UnicodeDecodeError", "binascii.Error"}

\* a variant of add_padding that pads a length that needs none by four '='
add_padding_always(encoded_data) ==
  encoded_data \o [i \in 1..(4 - (Len(encoded_data) % 4)) |-> 61]

\* lines 23-26: right-pad with '=' to a multiple of 4
add_padding(encoded_data) ==
  LET missing_padding == Len(encoded_data) % 4
  IN  IF missing_padding # 0
      THEN encoded_data \o [i \in 1..(4 - missing_padding) |-> 61]
      ELSE encoded_data

\* lines 20-32: the decoded bytes of the token, or ValueError
raw_data_of(vpn_url) ==
  Bind(urlsafe_b64decode(add_padding(Strip(Tail2(vpn_url, 7)))),
       LAMBDA r : IF r.exc = "none" THEN r ELSE Raise("ValueError", "Base64 decode error"))

\* json.loads(b.decode('utf-8'))
loads_bytes(b) == Then(decode_utf8(b), json_loads_text)

\* lines 36-46, the body of the try: the JSON of the decompressed bytes, or
\* what was raised
compressed_json(raw_data) ==
  IF Len(raw_data) >= 4
  THEN LET expected_length == from_bytes_big(SubSeq(raw_data, 1, 4))
       IN  Then(zlib_decompress(Tail2(raw_data, 5)),
                LAMBDA decompressed :
                  IF EqualsLength(Len(decompressed), expected_length)
                  THEN loads_bytes(decompressed)
                  ELSE Raise("ValueError", "Length mismatch after decompression"))
  ELSE Raise("ValueError", "Data too short for zlib format")

\* a variant of plain_json that parses the buffer after its first four bytes
plain_json_of_rest(raw_data) == loads_bytes(Tail2(raw_data, 5))

\* line 51, the fallback: the JSON of the whole decoded buffer
plain_json(raw_data) == loads_bytes(raw_data)

\* lines 34-53: json_data, and in "via" the path that produced it
json_data_of(raw_data) ==
  Bind(compressed_json(raw_data),
       LAMBDA c :
         IF c.exc = "none" THEN [exc |-> "none", val |-> c.val, via |-> "compressed"]
         ELSE IF c.exc = "zlib.error" \/ IsValueError(c.exc)
         THEN Bind(plain_json(raw_data),
                   LAMBDA p :
                     IF p.exc = "none" THEN [exc |-> "none", val |-> p.val, via |-> "bare"]
                     ELSE IF p.exc = "Unmodelled"
                     THEN [exc |-> p.exc, val |-> p.val, via |-> "raised"]
                     ELSE [exc |-> "ValueError", val |-> "JSON decode error",
                           via |-> "invalid"])
         ELSE [exc |-> c.exc, val |-> c.val, via |-> "raised"])

\* lines 55-65: the nested configuration when present, else json_data
unwrap(json_data) ==
  IF IsDict(json_data) /\ HasKey(json_data, Txt(<< "c", "o", "n", "t", "a", "i", "n", "e", "r", "s" >>))
  THEN LET containers == Item(json_data, Txt(<< "c", "o", "n", "t", "a", "i", "n", "e", "r", "s" >>))
       IN  IF IsList(containers) /\ Len(containers.v) > 0
           THEN LET container == containers.v[1]
                IN  IF IsDict(container) /\ HasKey(container, Txt(<< "x", "r", "a", "y" >>))
                    THEN LET xray_config == Item(container, Txt(<< "x", "r", "a", "y" >>))
                         IN  IF IsDict(xray_config) /\ HasKey(xray_config, Txt(<< "l", "a", "s", "t", "_", "c", "o", "n", "f", "i", "g" >>))
                             THEN json_loads(Item(xray_config, Txt(<< "l", "a", "s", "t", "_", "c", "o", "n", "f", "i", "g" >>)))
                             ELSE Return(json_data)
                    ELSE Return(json_data)
           ELSE Return(json_data)
  ELSE Return(json_data)

decode_vpn_url(vpn_url) ==
  IF ~StartsWith(vpn_url, Txt(<< "v", "p", "n", ":", "/", "/" >>))
  THEN Raise("ValueError", "Invalid VPN URL format")
  ELSE Then(raw_data_of(vpn_url),
            LAMBDA raw_data :
              Bind(json_data_of(raw_data),
                   LAMBDA json_data :
                     IF json_data.exc # "none" THEN Raise(json_data.exc, json_data.val)
                     ELSE unwrap(json_data.val)))

---------------------------------------------------------------------------
(***************************************************************************)
(* to_vless_url (lines 136-182) and get_vless_name (lines 127-134).        *)
(* to_vless_url runs to the input() of get_vless_name (url_before_name),   *)
(* and from the line read there to its return (url_with_name).             *)
(***************************************************************************)
\* x[key] for a str key
Subscript(x, key) ==
  IF IsDict(x)
  THEN (IF HasKey(x, key) THEN Return(Item(x, key)) ELSE Raise("KeyError", key))
  ELSE Raise("TypeError", "indices must be integers, or object is not subscriptable")

\* x[0]
First(x) ==
  CASE IsList(x) ->
         IF x.v # << >> THEN Return(x.v[1]) ELSE Raise("IndexError", "list index out of range")
    [] IsStr(x) ->
         IF x.v # << >> THEN Return(JStr(<< x.v[1] >>))
         ELSE Raise("IndexError", "string index out of range")
    [] IsDict(x) -> Raise("KeyError", "0")
    [] OTHER -> Raise("TypeError", "object is not subscriptable")

\* x.get(key, default): only a dict has get
GetAttr(x, key, default) ==
  IF IsDict(x) THEN Return(Get(x, key, default))
  ELSE Raise("AttributeError", "object has no attribute 'get'")

\* a variant of build_url that appends the fields in the order lines 147-156
\* read them: type before security
build_url_in_read_order(uuid, address, port, f) ==
  Txt(<< "v", "l", "e", "s", "s", ":", "/", "/" >>) \o Format(uuid) \o << 64 >> \o Format(address) \o << 58 >> \o Format(port)
  \o Txt(<< "?", "e", "n", "c", "r", "y", "p", "t", "i", "o", "n", "=", "n", "o", "n", "e" >>)
  \o (IF Truthy(f.flow) THEN Txt(<< "&", "f", "l", "o", "w", "=" >>) \o Format(f.flow) ELSE << >>)
  \o (IF Truthy(f.network) THEN Txt(<< "&", "t", "y", "p", "e", "=" >>) \o Format(f.network) ELSE << >>)
  \o (IF Truthy(f.security) THEN Txt(<< "&", "s", "e", "c", "u", "r", "i", "t", "y", "=" >>) \o Format(f.security) ELSE << >>)
  \o (IF Truthy(f.server_name) THEN Txt(<< "&", "s", "n", "i", "=" >>) \o Format(f.server_name) ELSE << >>)
  \o (IF Truthy(f.fingerprint) THEN Txt(<< "&", "f", "p", "=" >>) \o Format(f.fingerprint) ELSE << >>)
  \o (IF Truthy(f.public_key) THEN Txt(<< "&", "p", "b", "k", "=" >>) \o Format(f.public_key) ELSE << >>)
  \o (IF Truthy(f.short_id) THEN Txt(<< "&", "s", "i", "d", "=" >>) \o Format(f.short_id) ELSE << >>)
  \o (IF Truthy(f.spiderx) THEN Txt(<< "&", "s", "p", "x", "=" >>) \o Format(f.spiderx) ELSE << >>)

\* lines 158-174: the URI up to the name, in the order the fields are appended
build_url(uuid, address, port, f) ==
  Txt(<< "v", "l", "e", "s", "s", ":", "/", "/" >>) \o Format(uuid) \o << 64 >> \o Format(address) \o << 58 >> \o Format(port)
  \o Txt(<< "?", "e", "n", "c", "r", "y", "p", "t", "i", "o", "n", "=", "n", "o", "n", "e" >>)
  \o (IF Truthy(f.flow) THEN Txt(<< "&", "f", "l", "o", "w", "=" >>) \o Format(f.flow) ELSE << >>)
  \o (IF Truthy(f.security) THEN Txt(<< "&", "s", "e", "c", "u", "r", "i", "t", "y", "=" >>) \o Format(f.security) ELSE << >>)
  \o (IF Truthy(f.server_name) THEN Txt(<< "&", "s", "n", "i", "=" >>) \o Format(f.server_name) ELSE << >>)
  \o (IF Truthy(f.fingerprint) THEN Txt(<< "&", "f", "p", "=" >>) \o Format(f.fingerprint) ELSE << >>)
  \o (IF Truthy(f.public_key) THEN Txt(<< "&", "p", "b", "k", "=" >>) \o Format(f.public_key) ELSE << >>)
  \o (IF Truthy(f.short_id) THEN Txt(<< "&", "s", "i", "d", "=" >>) \o Format(f.short_id) ELSE << >>)
  \o (IF Truthy(f.spiderx) THEN Txt(<< "&", "s", "p", "x", "=" >>) \o Format(f.spiderx) ELSE << >>)
  \o (IF Truthy(f.network) THEN Txt(<< "&", "t", "y", "p", "e", "=" >>) \o Format(f.network) ELSE << >>)

\* lines 138-156: what to_vless_url reads from data; the first failing step raises
read_fields(data) ==
  LET out == Then(Subscript(data, Txt(<< "o", "u", "t", "b", "o", "u", "n", "d", "s" >>)), First)
      settings == Then(out, LAMBDA o : Subscript(o, Txt(<< "s", "e", "t", "t", "i", "n", "g", "s" >>)))
      vnext == Then(Then(settings, LAMBDA s : Subscript(s, Txt(<< "v", "n", "e", "x", "t" >>))), First)
      user == Then(Then(vnext, LAMBDA v : Subscript(v, Txt(<< "u", "s", "e", "r", "s" >>))), First)
      stream == Then(out, LAMBDA o : Subscript(o, Txt(<< "s", "t", "r", "e", "a", "m", "S", "e", "t", "t", "i", "n", "g", "s" >>)))
      uuid == Then(user, LAMBDA u : Subscript(u, Txt(<< "i", "d" >>)))
      address == Then(vnext, LAMBDA v : Subscript(v, Txt(<< "a", "d", "d", "r", "e", "s", "s" >>)))
      port == Then(vnext, LAMBDA v : Subscript(v, Txt(<< "p", "o", "r", "t" >>)))
      flow == Then(user, LAMBDA u : GetAttr(u, Txt(<< "f", "l", "o", "w" >>), JStr(<< >>)))
      network == Then(stream, LAMBDA s : GetAttr(s, Txt(<< "n", "e", "t", "w", "o", "r", "k" >>), JStr(Txt(<< "t", "c", "p" >>))))
      security == Then(stream, LAMBDA s : GetAttr(s, Txt(<< "s", "e", "c", "u", "r", "i", "t", "y" >>), JStr(Txt(<< "n", "o", "n", "e" >>))))
      rs == Then(stream, LAMBDA s : GetAttr(s, Txt(<< "r", "e", "a", "l", "i", "t", "y", "S", "e", "t", "t", "i", "n", "g", "s" >>), JDict(<< >>)))
      server_name == Then(rs, LAMBDA r : GetAttr(r, Txt(<< "s", "e", "r", "v", "e", "r", "N", "a", "m", "e" >>), JStr(<< >>)))
      fingerprint == Then(rs, LAMBDA r : GetAttr(r, Txt(<< "f", "i", "n", "g", "e", "r", "p", "r", "i", "n", "t" >>), JStr(<< >>)))
      public_key == Then(rs, LAMBDA r : GetAttr(r, Txt(<< "p", "u", "b", "l", "i", "c", "K", "e", "y" >>), JStr(<< >>)))
      short_id == Then(rs, LAMBDA r : GetAttr(r, Txt(<< "s", "h", "o", "r", "t", "I", "d" >>), JStr(<< >>)))
      spiderx == Then(rs, LAMBDA r : GetAttr(r, Txt(<< "s", "p", "i", "d", "e", "r", "X" >>), JStr(<< >>)))
      steps == << out, vnext, user, stream, uuid, address, port, flow, network,
                  security, rs, server_name, fingerprint, public_key, short_id,
                  spiderx >>
      failed == {i \in 1..Len(steps) : steps[i].exc # "none"}
  IN  IF failed # {} THEN steps[CHOOSE i \in failed : \A j \in failed : i <= j]
      ELSE Return([uuid |-> uuid.val, address |-> address.val, port |-> port.val,
                   flow |-> flow.val, network |-> network.val,
                   security |-> security.val, server_name |-> server_name.val,
                   fingerprint |-> fingerprint.val, public_key |-> public_key.val,
                   short_id |-> short_id.val, spiderx |-> spiderx.val])

\* lines 138-174: the URI built before the name is asked for, with the address
url_before_name(data) ==
  Then(read_fields(data),
       LAMBDA f : Return([url |-> build_url(f.uuid, f.address, f.port, f),
                          address |-> f.address]))

\* get_vless_name, given what input() did: a line read, or Ctrl+C
get_vless_name(address, answer) ==
  IF answer.k = "line"
  THEN (IF Strip(answer.v) # << >> THEN JStr(Strip(answer.v)) ELSE address)
  ELSE address

\* lines 177-179
url_with_name(url, custom_name) == url \o << 35 >> \o Format(custom_name)

---------------------------------------------------------------------------
(***************************************************************************)
(* The inputs of the model: what a user can type at the prompts.           *)
(* json_text, b64encode and zlib_stored write the texts and containers     *)
(* that json.loads, urlsafe_b64decode and zlib.decompress read.            *)
(***************************************************************************)
Concat(seqs) ==
  LET RECURSIVE cat(_)
      cat(i) == IF i > Len(seqs) THEN << >> ELSE seqs[i] \o cat(i + 1)
  IN  cat(1)

\* s.join(parts) for a one-byte separator c
Join(parts, c) ==
  LET RECURSIVE j(_)
      j(i) == IF i > Len(parts) THEN << >>
              ELSE (IF i > 1 THEN << c >> ELSE << >>) \o parts[i] \o j(i + 1)
  IN  j(1)

\* a JSON string literal: quotes and backslashes escaped
quote_step(acc, c) == IF c \in {34, 92} THEN acc \o << 92, c >> ELSE Append(acc, c)

QuotedText(s) == ForEach(quote_step, s, 1, Len(s), << 34 >>) \o << 34 >>

\* the compact JSON text of a value
RECURSIVE json_text(_)
json_text(x) ==
  CASE x.t = "str" -> QuotedText(x.v)
    [] x.t = "int" -> Format(x)
    [] x.t = "bool" -> IF x.v THEN Txt(<< "t", "r", "u", "e" >>) ELSE Txt(<< "f", "a", "l", "s", "e" >>)
    [] x.t = "null" -> Txt(<< "n", "u", "l", "l" >>)
    [] x.t = "list" -> << 91 >> \o Join([i \in 1..Len(x.v) |-> json_text(x.v[i])], 44) \o << 93 >>
    [] x.t = "dict" ->
         << 123 >>
         \o Join([i \in 1..Len(x.v) |->
                    QuotedText(x.v[i].k) \o << 58 >> \o json_text(x.v[i].v)], 44)
         \o << 125 >>

\* the URL-safe base64 alphabet
B64Char(v) ==
  IF v < 26 THEN 65 + v
  ELSE IF v < 52 THEN 71 + v
  ELSE IF v < 62 THEN v - 4
  ELSE IF v = 62 THEN 45
  ELSE 95

\* base64.urlsafe_b64encode: three bytes to four characters, padded with '='
b64encode(b) ==
  LET n == Len(b)
      byte(i) == IF i <= n THEN b[i] ELSE 0
      char(g, j) ==
        LET b1 == byte(3 * g + 1)
            b2 == byte(3 * g + 2)
            b3 == byte(3 * g + 3)
        IN  CASE j = 1 -> B64Char(b1 \div 4)
              [] j = 2 -> B64Char((b1 % 4) * 16 + (b2 \div 16))
              [] j = 3 -> IF 3 * g + 2 > n THEN 61
                          ELSE B64Char((b2 % 16) * 4 + (b3 \div 64))
              [] j = 4 -> IF 3 * g + 3 > n THEN 61 ELSE B64Char(b3 % 64)
  IN  [i \in 1..(4 * ((n + 2) \div 3)) |-> char((i - 1) \div 4, ((i - 1) % 4) + 1)]

\* the token with n of its trailing '=' removed
DropPads(s, n) == SubSeq(s, 1, Len(s) - n)

\* n as four big-endian bytes
Length4(n) == << 0, 0, n \div 256, n % 256 >>

\* a zlib stream holding data in one stored block
zlib_stored(data) ==
  LET sum == Adler32(data)
  IN  << 120, 1, 1, Len(data) % 256, Len(data) \div 256,
         255 - (Len(data) % 256), 255 - (Len(data) \div 256) >>
      \o data
      \o << sum[1] \div 256, sum[1] % 256, sum[2] \div 256, sum[2] % 256 >>

\* the vpn:// payload of a text: length prefix and compressed text
Compressed(text) == Length4(Len(text)) \o zlib_stored(text)

\* console input: a line, Ctrl+C (KeyboardInterrupt) or end of input (EOFError)
Line(s) == [k |-> "line", v |-> s]

CtrlC == [k |-> "interrupt", v |-> << >>]

Eof == [k |-> "eof", v |-> << >>]

\* the configuration that nests value x the way unwrap looks for it
Wrapper(x) ==
  JDict(<< << Txt(<< "c", "o", "n", "t", "a", "i", "n", "e", "r", "s" >>),
              JList(<< JDict(<< << Txt(<< "x", "r", "a", "y" >>), JDict(<< << Txt(<< "l", "a", "s", "t", "_", "c", "o", "n", "f", "i", "g" >>), x >> >>) >> >>) >>) >> >>)

\* the sequences over S of length at most n
SeqsUpTo(S, n) == UNION {[1..m -> S] : m \in 0..n}

\* the query parameters from_vless_url reads
ParamKeys ==
  {Txt(<< "t", "y", "p", "e" >>), Txt(<< "s", "e", "c", "u", "r", "i", "t", "y" >>),
   Txt(<< "p", "b", "k" >>), Txt(<< "s", "n", "i" >>), Txt(<< "f", "p" >>),
   Txt(<< "s", "i", "d" >>), Txt(<< "f", "l", "o", "w" >>), Txt(<< "s", "p", "x" >>)}

\* parameter values: blank, a plain value, and one with a percent-escaped '&'
ParamValues == {<< >>, Txt(<< "a" >>), Txt(<< "c", "%", "2", "6", "d" >>)}

\* the text from the '?' on, for a sequence of << key, value >> parameters
QueryOf(ps) ==
  IF ps = << >> THEN << >>
  ELSE << 63 >> \o Join([i \in 1..Len(ps) |-> ps[i][1] \o << 61 >> \o ps[i][2]], 38)

\* every parameter once, with a value that needs no escape
FullParams ==
  << << Txt(<< "f", "l", "o", "w" >>), Txt(<< "f" >>) >>,
     << Txt(<< "s", "e", "c", "u", "r", "i", "t", "y" >>), Txt(<< "t", "l", "s" >>) >>,
     << Txt(<< "s", "n", "i" >>), Txt(<< "s", ".", "e" >>) >>,
     << Txt(<< "f", "p" >>), Txt(<< "c" >>) >>,
     << Txt(<< "p", "b", "k" >>), Txt(<< "k" >>) >>,
     << Txt(<< "s", "i", "d" >>), Txt(<< "i" >>) >>,
     << Txt(<< "s", "p", "x" >>), Txt(<< "x" >>) >>,
     << Txt(<< "t", "y", "p", "e" >>), Txt(<< "w", "s" >>) >> >>

\* user, host and port parts of the netloc, and the fragment
UserParts == {Txt(<< "u", "@" >>), << >>}

HostParts == {Txt(<< "h" >>), Txt(<< "H", "o" >>)}

PortParts ==
  {<< >>, Txt(<< ":" >>), Txt(<< ":", "1" >>), Txt(<< ":", "x" >>), Txt(<< ":", "0", "4" >>),
   Txt(<< ":", "4", "4", "3" >>), Txt(<< ":", "7", "0", "0", "0", "0" >>)}

Fragments == {<< >>, Txt(<< "#", "n" >>)}

\* how a vless:// line is made: every netloc with no or all parameters, and
\* one netloc with every short sequence of parameters
VlessOrigins ==
  {[kind |-> "vless", user |-> u, host |-> h, port |-> p, params |-> q, fragment |-> f] :
     u \in UserParts, h \in HostParts, p \in PortParts,
     q \in {<< >>, FullParams}, f \in Fragments}
  \cup {[kind |-> "vless", user |-> Txt(<< "u", "@" >>), host |-> Txt(<< "h" >>),
         port |-> Txt(<< ":", "4", "4", "3" >>), params |-> ps, fragment |-> << >>] :
          ps \in SeqsUpTo(ParamKeys \X ParamValues, MaxParams)}

VlessLine(o) ==
  Txt(<< "v", "l", "e", "s", "s", ":", "/", "/" >>)
  \o o.user \o o.host \o o.port \o QueryOf(o.params) \o o.fragment

\* the values a configuration field takes in the inputs of to_vless_url
FieldValue ==
  [flow |-> Txt(<< "f" >>), security |-> Txt(<< "t", "l", "s" >>),
   server_name |-> Txt(<< "s", ".", "e" >>), fingerprint |-> Txt(<< "c" >>),
   public_key |-> Txt(<< "k" >>), short_id |-> Txt(<< "i" >>),
   spiderx |-> Txt(<< "/" >>), network |-> Txt(<< "w", "s" >>)]

\* the configuration whose fields in S hold their value and the others ""
ConfigWith(S) ==
  ConfigOf(JStr(Txt(<< "u" >>)), JStr(Txt(<< "h" >>)), JInt(443),
           [f \in DOMAIN FieldValue |-> IF f \in S THEN FieldValue[f] ELSE << >>])

\* d without key
DelKey(d, key) == [t |-> "dict", v |-> SelectSeq(d.v, LAMBDA e : e.k # key)]

\* the value at the end of a path of keys (texts) and indexes (numbers > 0)
RECURSIVE GetPath(_, _)
GetPath(x, path) ==
  IF path = << >> THEN x
  ELSE IF IsDict(x) THEN GetPath(Item(x, path[1].key), Tail(path))
  ELSE GetPath(x.v[path[1].idx], Tail(path))

\* x with the value at the end of a path replaced
RECURSIVE SetPath(_, _, _)
SetPath(x, path, new) ==
  IF path = << >> THEN new
  ELSE IF IsDict(x)
  THEN SetItem(x, path[1].key, SetPath(Item(x, path[1].key), Tail(path), new))
  ELSE JList([x.v EXCEPT ![path[1].idx] = SetPath(x.v[path[1].idx], Tail(path), new)])

\* cfg with a key removed from, or set in, the dict at the end of a path
Without(cfg, path, key) == SetPath(cfg, path, DelKey(GetPath(cfg, path), key))

With(cfg, path, key, val) == SetPath(cfg, path, SetItem(GetPath(cfg, path), key, val))

Key(k) == [key |-> k, idx |-> 0]

Idx(i) == [key |-> << >>, idx |-> i]

OutboundPath == << Key(Txt(<< "o", "u", "t", "b", "o", "u", "n", "d", "s" >>)), Idx(1) >>

SettingsPath == OutboundPath \o << Key(Txt(<< "s", "e", "t", "t", "i", "n", "g", "s" >>)) >>

VnextPath == SettingsPath \o << Key(Txt(<< "v", "n", "e", "x", "t" >>)), Idx(1) >>

UserPath == VnextPath \o << Key(Txt(<< "u", "s", "e", "r", "s" >>)), Idx(1) >>

StreamPath == OutboundPath \o << Key(Txt(<< "s", "t", "r", "e", "a", "m", "S", "e", "t", "t", "i", "n", "g", "s" >>)) >>

RealityPath == StreamPath \o << Key(Txt(<< "r", "e", "a", "l", "i", "t", "y", "S", "e", "t", "t", "i", "n", "g", "s" >>)) >>

FullConfig == ConfigWith(DOMAIN FieldValue)

\* configurations with optional keys absent: the defaults of lines 147-156 apply
SparseConfigs ==
  << Without(FullConfig, UserPath, Txt(<< "f", "l", "o", "w" >>)),
   Without(FullConfig, StreamPath, Txt(<< "n", "e", "t", "w", "o", "r", "k" >>)),
   Without(FullConfig, StreamPath, Txt(<< "s", "e", "c", "u", "r", "i", "t", "y" >>)),
   Without(FullConfig, StreamPath, Txt(<< "r", "e", "a", "l", "i", "t", "y", "S", "e", "t", "t", "i", "n", "g", "s" >>)),
   SetPath(FullConfig, StreamPath, JDict(<< >>)),
   Without(Without(FullConfig, RealityPath, Txt(<< "s", "e", "r", "v", "e", "r", "N", "a", "m", "e" >>)), RealityPath, Txt(<< "s", "h", "o", "r", "t", "I", "d" >>)),
   With(FullConfig, VnextPath, Txt(<< "p", "o", "r", "t" >>), JStr(Txt(<< "8", "0" >>))),
   With(FullConfig, UserPath, Txt(<< "i", "d" >>), None) >>

\* configurations in which a path to_vless_url descends is absent or malformed
BrokenConfigs ==
  << JDict(<< >>),
   JList(<< >>),
   JInt(5),
   DelKey(FullConfig, Txt(<< "o", "u", "t", "b", "o", "u", "n", "d", "s" >>)),
   SetItem(FullConfig, Txt(<< "o", "u", "t", "b", "o", "u", "n", "d", "s" >>), JList(<< >>)),
   SetItem(FullConfig, Txt(<< "o", "u", "t", "b", "o", "u", "n", "d", "s" >>), JDict(<< >>)),
   Without(FullConfig, OutboundPath, Txt(<< "s", "e", "t", "t", "i", "n", "g", "s" >>)),
   Without(FullConfig, OutboundPath, Txt(<< "s", "t", "r", "e", "a", "m", "S", "e", "t", "t", "i", "n", "g", "s" >>)),
   With(FullConfig, OutboundPath, Txt(<< "s", "t", "r", "e", "a", "m", "S", "e", "t", "t", "i", "n", "g", "s" >>), JList(<< >>)),
   With(FullConfig, SettingsPath, Txt(<< "v", "n", "e", "x", "t" >>), JList(<< >>)),
   Without(FullConfig, SettingsPath, Txt(<< "v", "n", "e", "x", "t" >>)),
   Without(FullConfig, VnextPath, Txt(<< "u", "s", "e", "r", "s" >>)),
   With(FullConfig, VnextPath, Txt(<< "u", "s", "e", "r", "s" >>), JList(<< >>)),
   Without(FullConfig, VnextPath, Txt(<< "a", "d", "d", "r", "e", "s", "s" >>)),
   Without(FullConfig, VnextPath, Txt(<< "p", "o", "r", "t" >>)),
   Without(FullConfig, UserPath, Txt(<< "i", "d" >>)),
   With(FullConfig, StreamPath, Txt(<< "r", "e", "a", "l", "i", "t", "y", "S", "e", "t", "t", "i", "n", "g", "s" >>), JStr(<< >>)) >>

\* how a JSON line is made: a configuration with the fields of a set filled,
\* or one of the sparse or broken configurations
JsonOrigins ==
  {[kind |-> "json", family |-> "fields", fields |-> S, index |-> 0] :
     S \in SUBSET DOMAIN FieldValue}
  \cup {[kind |-> "json", family |-> "sparse", fields |-> {}, index |-> i] :
          i \in DOMAIN SparseConfigs}
  \cup {[kind |-> "json", family |-> "broken", fields |-> {}, index |-> i] :
          i \in DOMAIN BrokenConfigs}

ConfigFor(o) ==
  CASE o.family = "fields" -> ConfigWith(o.fields)
    [] o.family = "sparse" -> SparseConfigs[o.index]
    [] o.family = "broken" -> BrokenConfigs[o.index]

\* the files of the working directory: path |-> content
Files ==
  [p \in {Txt(<< "c", ".", "J", "S", "O", "N" >>), Txt(<< "b", ".", "j", "s", "o", "n" >>),
          Txt(<< "n", "o", "t", "e", "s" >>)} |->
     IF p[1] = 99 THEN json_text(FullConfig)
     ELSE IF p[1] = 98 THEN Txt(<< "{", "\"", "a", "\"", ":" >>)
     ELSE Txt(<< "[", "]" >>)]

\* JSON documents carried by vpn:// tokens
PlainDocs ==
  << JInt(1), JList(<< >>), JStr(Txt(<< "s" >>)), JList(<< JInt(1), None >>),
   JDict(<< << Txt(<< "a" >>), JBool(TRUE) >> >>), FullConfig,
   DelKey(FullConfig, Txt(<< "o", "u", "t", "b", "o", "u", "n", "d", "s" >>)) >>

\* documents nested as the last_config of a wrapper
InnerDocs == << JList(<< JInt(1) >>), FullConfig, JDict(<< >>) >>

\* documents with a containers[0].xray.last_config path holding a JSON text
WrappedDocs == [i \in DOMAIN InnerDocs |-> Wrapper(JStr(json_text(InnerDocs[i])))]

\* documents on which the test of lines 56-62 stops short of last_config
NearWrapperDocs ==
  << JDict(<< << Txt(<< "c", "o", "n", "t", "a", "i", "n", "e", "r", "s" >>), JList(<< >>) >> >>),
   JDict(<< << Txt(<< "c", "o", "n", "t", "a", "i", "n", "e", "r", "s" >>), JDict(<< >>) >> >>),
   JDict(<< << Txt(<< "c", "o", "n", "t", "a", "i", "n", "e", "r", "s" >>), JList(<< JList(<< >>) >>) >> >>),
   JDict(<< << Txt(<< "c", "o", "n", "t", "a", "i", "n", "e", "r", "s" >>), JList(<< JDict(<< >>) >>) >> >>),
   JDict(<< << Txt(<< "c", "o", "n", "t", "a", "i", "n", "e", "r", "s" >>), JList(<< JDict(<< << Txt(<< "x", "r", "a", "y" >>), JList(<< >>) >> >>) >>) >> >>),
   JDict(<< << Txt(<< "c", "o", "n", "t", "a", "i", "n", "e", "r", "s" >>), JList(<< JDict(<< << Txt(<< "x", "r", "a", "y" >>), JDict(<< >>) >> >>) >>) >> >>),
   JDict(<< << Txt(<< "c", "o", "n", "t", "a", "i", "n", "e", "r", "s" >>),
               JList(<< JDict(<< >>),
                        JDict(<< << Txt(<< "x", "r", "a", "y" >>),
                                    JDict(<< << Txt(<< "l", "a", "s", "t", "_", "c", "o", "n", "f", "i", "g" >>), JStr(Txt(<< "1" >>)) >> >>) >> >>)
                     >>) >> >>) >>

\* documents whose last_config is not a JSON text
BadWrapperDocs ==
  << Wrapper(JInt(5)), Wrapper(None), Wrapper(JList(<< >>)), Wrapper(JDict(<< >>)),
   Wrapper(JStr(Txt(<< "{" >>))), Wrapper(JStr(<< >>)) >>

\* the documents of a family
DocsOf(family) ==
  CASE family = "plain" -> PlainDocs
    [] family = "near" -> NearWrapperDocs
    [] family = "wrapped" -> WrappedDocs
    [] family = "bad" -> BadWrapperDocs

\* texts that are not JSON
NonJsonTexts == << Txt(<< "n", "u", "l" >>), Txt(<< "[", "1", "," >>), << 255, 49 >> >>

\* the text an origin encodes
TextOf(family, doc) ==
  IF family = "text" THEN NonJsonTexts[doc] ELSE json_text(DocsOf(family)[doc])

\* the decoded buffer that carries a text in a given form
FormOf(text, form) ==
  CASE form = "bare" -> text
    [] form = "compressed" -> Compressed(text)
    [] form = "longer" -> Length4(Len(text) + 1) \o zlib_stored(text)
    [] form = "huge" -> << 128, 0, 0, Len(text) % 256 >> \o zlib_stored(text)
    [] form = "cut" -> SubSeq(Compressed(text), 1, Len(Compressed(text)) - 1)
    [] form = "trailing" -> Compressed(text) \o << 120 >>
    [] form = "prefixed" -> Length4(Len(text)) \o text

Forms == {"bare", "compressed", "longer", "huge", "cut", "trailing", "prefixed"}

PayloadBytes == {49, 91, 93, 255}

\* the '=' that end the base64 encoding of a buffer
PadsOf(buffer) == (3 - (Len(buffer) % 3)) % 3

\* how a vpn:// line is made: a text of a family in a form, or a short raw
\* buffer, encoded, with some of the trailing '=' dropped
VpnOrigins ==
  LET families == {"plain", "near", "wrapped", "bad", "text"}
      count(family) == IF family = "text" THEN Len(NonJsonTexts) ELSE Len(DocsOf(family))
      texts == UNION {{[family |-> fam, doc |-> i, form |-> f,
                        buffer |-> FormOf(TextOf(fam, i), f)] :
                         i \in 1..count(fam), f \in Forms} : fam \in families}
      raws == {[family |-> "raw", doc |-> 0, form |-> "raw", buffer |-> b] :
                 b \in SeqsUpTo(PayloadBytes, MaxPayload)}
  IN  UNION {{[kind |-> "vpn", family |-> x.family, doc |-> x.doc, form |-> x.form,
               buffer |-> x.buffer, dropped |-> n] : n \in 0..PadsOf(x.buffer)} :
               x \in texts \cup raws}

VpnLine(o) ==
  Txt(<< "v", "p", "n", ":", "/", "/" >>) \o DropPads(b64encode(o.buffer), o.dropped)

\* other lines typed at the main prompt: the paths of the files and of no
\* file, exit words, blanks, texts that are not JSON, and vpn:// tokens that
\* are not base64
OtherLines ==
  DOMAIN Files
  \cup {Txt(<< "x", ".", "j", "s", "o", "n" >>),
        Txt(<< "e", "x", "i", "t" >>), Txt(<< "q", "u", "i", "t" >>), Txt(<< "q" >>),
        Txt(<< "Q", "u", "i", "t" >>), Txt(<< " ", "q", " " >>), << >>, << 32 >>,
        Txt(<< "{" >>), Txt(<< "h", "i" >>), Txt(<< "[", "1", "]", "x" >>),
        Txt(<< "v", "p", "n", ":", "/", "/", "M", "!", "Q", "=", "=", "Q" >>),
        Txt(<< "v", "p", "n", ":", "/", "/", "M" >>),
        Txt(<< " ", "v", "p", "n", ":", "/", "/", " ", "M", "Q", " " >>)}

\* lines typed at the choice prompt
ChoiceLines == {Txt(<< "1" >>), Txt(<< "2" >>), Txt(<< " ", "2" >>), Txt(<< "3" >>)}

\* lines typed at the name prompt
NameLines == {Txt(<< "n" >>), Txt(<< " ", "m", "y", " " >>), << >>, << 32 >>}

Answers(lines) == {Line(l) : l \in lines} \cup {CtrlC, Eof}

\* no line was typed at the main prompt of this iteration
NoOrigin == [kind |-> "none"]

-----------------------------------------------------------------------------
(***************************************************************************)
(* main: the interactive loop.  The program stops at its three input()     *)
(* calls; an action is everything it does from one of them to the next.    *)
(*   pc       where the program waits: "top" (start of a loop iteration),  *)
(*            "prompt" (line 193), "choice" (line 222), "name" (line 130), *)
(*            or "exited"                                                  *)
(*   src      the stripped line read at line 193                           *)
(*   choice   the stripped line read at line 222                           *)
(*   data     the argument of the to_vless_url call of this iteration      *)
(*   pending  the url and address of a to_vless_url call suspended in      *)
(*            get_vless_name                                               *)
(*   console  what this iteration wrote and read on the terminal, in order *)
(*   exit     how the process ended, "running" while it has not            *)
(*   origin   history: how the line read at line 193 was made              *)
(***************************************************************************)
VARIABLES pc, src, choice, data, pending, console, exit, origin

vars == << pc, src, choice, data, pending, console, exit, origin >>

\* an upper bound on the invalid answers given at the choice prompt
MaxRetries == 1

\* one terminal event: who caused it, what it is, and its content
Say(by, k, v) == [by |-> by, k |-> k, v |-> v]

\* no to_vless_url call is suspended
NoCall == [url |-> << >>, address |-> None]

\* the values of the variables, as one record
State ==
  [pc |-> pc, src |-> src, choice |-> choice, data |-> data, pending |-> pending,
   console |-> console, exit |-> exit]

\* the variables take the values of record st
Becomes(st) ==
  /\ pc' = st.pc
  /\ src' = st.src
  /\ choice' = st.choice
  /\ data' = st.data
  /\ pending' = st.pending
  /\ console' = st.console
  /\ exit' = st.exit

\* st after one more terminal event
Told(st, by, k, v) == [st EXCEPT !.console = Append(@, Say(by, k, v))]

\* st at the top of the loop again, after `continue` or the end of the body
Again(st) == [st EXCEPT !.pc = "top"]

\* st with the process ended
Ended(st, how) == [st EXCEPT !.pc = "exited", !.exit = how]

\* the handlers of lines 255-262: every Exception ends as one printed line
Handled(st, exc) == Again(Told(st, "main", "error", exc))

\* print of the separator and of a result, lines 210-211 and 233-240
Shown(st, k, v) == Again(Told(Told(st, "main", "print", "separator"), "main", k, v))

\* to_vless_url(d): up to the input() of get_vless_name, or to the sys.exit
\* of line 182
to_vless_url_call(st, d) ==
  Bind(url_before_name(d),
       LAMBDA r :
         IF r.exc = "none"
         THEN [Told(st, "get_vless_name", "prompt", r.val.address)
                 EXCEPT !.data = d, !.pc = "name", !.pending = r.val]
         ELSE [Ended(Told(st, "to_vless_url", "exit_message", r.exc), "SystemExit")
                 EXCEPT !.data = d])

\* lines 246-250: the file's content when src names an existing .json file
json_source(s) ==
  IF s \in DOMAIN Files /\ EndsWith(Lower(s), Txt(<< ".", "j", "s", "o", "n" >>))
  THEN Files[s]
  ELSE s

\* lines 207-262 for a non-empty src that is not an exit word
convert(st, s) ==
  IF StartsWith(s, Txt(<< "v", "l", "e", "s", "s", ":", "/", "/" >>))
  THEN Bind(from_vless_url(s),
            LAMBDA result :
              IF result.exc # "none" THEN Handled(st, result.exc)
              ELSE Shown(st, "json", result.val))
  ELSE IF StartsWith(s, Txt(<< "v", "p", "n", ":", "/", "/" >>))
  THEN [Told(Told(st, "main", "print", "menu"), "main", "prompt", "choice")
          EXCEPT !.pc = "choice"]
  ELSE Bind(json_loads_text(json_source(s)),
            LAMBDA loaded :
              IF loaded.exc # "none" THEN Handled(st, loaded.exc)
              ELSE to_vless_url_call(Told(st, "main", "print", "separator"),
                                     loaded.val))

\* lines 192-262 after input() at line 193 did `answer`; st holds the read
after_source(st, answer) ==
  IF answer.k = "eof" THEN Ended(st, "EOFError")
  ELSE IF answer.k = "interrupt"
  THEN Ended(Told(st, "main", "print", "interrupted"), "break")
  ELSE IF Lower(Strip(answer.v)) \in {Txt(<< "e", "x", "i", "t" >>),
                                      Txt(<< "q", "u", "i", "t" >>), Txt(<< "q" >>)}
  THEN Ended(Told([st EXCEPT !.src = Strip(answer.v)], "main", "print", "goodbye"), "break")
  ELSE IF Strip(answer.v) = << >>
  THEN Again(Told([st EXCEPT !.src = << >>], "main", "print", "empty"))
  ELSE convert([st EXCEPT !.src = Strip(answer.v)], Strip(answer.v))

\* lines 231-240 once choice is "1" or "2"
decoded(st, c) ==
  Bind(decode_vpn_url(st.src),
       LAMBDA config :
         IF config.exc # "none" THEN Handled(st, config.exc)
         ELSE IF c = Txt(<< "1" >>)
         THEN to_vless_url_call(Told(st, "main", "print", "separator"), config.val)
         ELSE Shown(st, "json", config.val))

\* lines 220-240 after input() at line 222 did `answer`; st holds the read
after_choice(st, answer) ==
  IF answer.k = "interrupt"
  THEN Ended(Told(st, "main", "print", "interrupted"), "return")
  ELSE IF answer.k = "eof" THEN Handled(st, "EOFError")
  ELSE IF Strip(answer.v) \in {Txt(<< "1" >>), Txt(<< "2" >>)}
  THEN decoded([st EXCEPT !.choice = Strip(answer.v)], Strip(answer.v))
  ELSE Told(Told([st EXCEPT !.choice = Strip(answer.v)], "main", "print", "invalid choice"),
            "main", "prompt", "choice")

\* lines 130-134 and 178-182 after input() at line 130 did `answer`, then the
\* print of line 236 or 253; st holds the read
after_name(st, answer) ==
  IF answer.k = "eof"
  THEN [Ended(Told(st, "to_vless_url", "exit_message", "EOFError"), "SystemExit")
          EXCEPT !.pending = NoCall]
  ELSE [Again(Told(IF answer.k = "interrupt"
                   THEN Told(st, "get_vless_name", "print", "interrupted")
                   ELSE st,
                   "main", "url",
                   url_with_name(st.pending.url,
                                 get_vless_name(st.pending.address, answer))))
          EXCEPT !.pending = NoCall]

Init ==
  /\ pc = "top"
  /\ src = << >>
  /\ choice = << >>
  /\ data = None
  /\ pending = NoCall
  /\ console = << >>
  /\ exit = "running"
  /\ origin = NoOrigin

\* line 191 and the prompt of line 193; what the iteration before left in
\* src, choice and data is not read again, and is dropped here
Banner ==
  /\ pc = "top"
  /\ pc' = "prompt"
  /\ console' = << Say("main", "print", "banner"), Say("main", "prompt", "source") >>
  /\ src' = << >>
  /\ choice' = << >>
  /\ data' = None
  /\ origin' = NoOrigin
  /\ UNCHANGED << pending, exit >>

\* lines 192-262, from the answer at line 193 to the next input() call; o
\* records how the answer was made
MainPrompt(answer, o) ==
  /\ pc = "prompt"
  /\ Becomes(after_source(Told(State, "main", "read", answer), answer))
  /\ origin' = o

\* the invalid answers given so far at the choice prompt
InvalidChoices ==
  Len(SelectSeq(console, LAMBDA e : e.k = "print" /\ e.v = "invalid choice"))

\* lines 220-240, from the answer at line 222 to the next input() call
ChoicePrompt(answer) ==
  /\ pc = "choice"
  /\ (answer.k = "line" /\ Strip(answer.v) \notin {Txt(<< "1" >>), Txt(<< "2" >>)})
       => InvalidChoices < MaxRetries
  /\ Becomes(after_choice(Told(State, "main", "read", answer), answer))
  /\ UNCHANGED origin

\* lines 130-134, 178-182 and 236 or 253, from the answer at line 130 on
NamePrompt(answer) ==
  /\ pc = "name"
  /\ Becomes(after_name(Told(State, "get_vless_name", "read", answer), answer))
  /\ UNCHANGED origin

Next ==
  \/ Banner
  \/ \E o \in VlessOrigins : MainPrompt(Line(VlessLine(o)), o)
  \/ \E o \in VpnOrigins : MainPrompt(Line(VpnLine(o)), o)
  \/ \E o \in JsonOrigins : MainPrompt(Line(json_text(ConfigFor(o))), o)
  \/ \E l \in OtherLines : MainPrompt(Line(l), [kind |-> "line"])
  \/ \E answer \in {CtrlC, Eof} : MainPrompt(answer, NoOrigin)
  \/ \E answer \in Answers(ChoiceLines) : ChoicePrompt(answer)
  \/ \E answer \in Answers(NameLines) : NamePrompt(answer)

Spec == Init /\ [][Next]_vars

\* the model stays inside what it models of json.loads and zlib.decompress
Modelled ==
  \A i \in 1..Len(console) :
    (console[i].k \in {"error", "exit_message"}) => console[i].v # "Unmodelled"

-----------------------------------------------------------------------------
(***************************************************************************)
(* What a state shows of the conversion just made.                         *)
(***************************************************************************)
\* the last terminal event
LastSaid == console[Len(console)]

\* the iteration ended with the print of JSON value x (lines 211 and 240)
ShowsJson(x) ==
  /\ pc = "top"
  /\ console # << >>
  /\ LastSaid.k = "json"
  /\ json_text(LastSaid.v) = json_text(x)

\* the iteration ended in a handler of lines 255-262, for exception exc
ShowsError(exc) ==
  /\ pc = "top"
  /\ console # << >>
  /\ LastSaid.k = "error"
  /\ LastSaid.v = exc

\* the iteration ended in some handler of lines 255-262
ShowsSomeError == pc = "top" /\ console # << >> /\ LastSaid.k = "error"

\* the iteration decoded the vpn:// token in src and printed the outcome
DecodedToJson ==
  /\ pc = "top"
  /\ choice = Txt(<< "2" >>)
  /\ console # << >>
  /\ LastSaid.k \in {"json", "error"}
  /\ origin.kind = "vpn"

\* the vpn:// token of a decoded buffer
TokenOf(buffer) == Txt(<< "v", "p", "n", ":", "/", "/" >>) \o b64encode(buffer)

\* the document the decoded token was made from
TheDoc == DocsOf(origin.family)[origin.doc]

\* the token is the whole encoding of a JSON document, compressed behind
\* its length or bare, and was decoded
DecodedDocument ==
  /\ DecodedToJson
  /\ origin.family \in {"plain", "near", "wrapped", "bad"}
  /\ origin.form \in {"compressed", "bare"}
  /\ origin.dropped = 0

-----------------------------------------------------------------------------
(***************************************************************************)
(* decode_vpn_url, seen through main: choice 2 prints what it returns.     *)
(***************************************************************************)
\* C1 as stated: decode of the compressed token and of the bare token of a
\* JSON value j returns j exactly, for every j; checked on the values whose
\* last_config, if they have one, holds a JSON text
C1_DecodeReturnsEveryDocument ==
  (DecodedDocument /\ origin.family \in {"plain", "near", "wrapped"}) => ShowsJson(TheDoc)

\* C1, amended: decode of the compressed token and of the bare token of a JSON
\* value j returns j exactly when j has no containers[0].xray.last_config
\* path, and returns the value parsed from last_config when j has that path
\* and last_config holds a JSON text
C1_DecodeRoundTrip ==
  /\ (DecodedDocument /\ origin.family \in {"plain", "near"}) => ShowsJson(TheDoc)
  /\ (DecodedDocument /\ origin.family = "wrapped") => ShowsJson(InnerDocs[origin.doc])

\* a configuration came back from its compressed token
C1_Witness ==
  /\ DecodedDocument
  /\ origin.form = "compressed"
  /\ json_text(TheDoc) = json_text(FullConfig)
  /\ ShowsJson(FullConfig)

\* C4 as stated: unwrap never fails and returns its input unchanged for every
\* value that does not match the full pattern, a last_config that is not a
\* JSON-encoded string included
C4_UnwrapIsIdentityOffPattern ==
  (DecodedDocument /\ origin.family \in {"plain", "near", "bad"}) => ShowsJson(TheDoc)

\* the outcome the three-way rule gives for a decoded buffer: the JSON of the
\* decompressed bytes when the buffer has 4 bytes or more, the rest inflates,
\* its length is the big-endian value of the first 4 bytes and it is JSON;
\* else the JSON of the whole buffer; else no value
RuleOutcome(raw) ==
  LET inflated == zlib_decompress(Tail2(raw, 5))
      fits == /\ Len(raw) >= 4
              /\ inflated.exc = "none"
              /\ EqualsLength(Len(inflated.val), from_bytes_big(SubSeq(raw, 1, 4)))
              /\ loads_bytes(inflated.val).exc = "none"
  IN  IF fits THEN [kind |-> "compressed", val |-> loads_bytes(inflated.val).val]
      ELSE IF loads_bytes(raw).exc = "none"
      THEN [kind |-> "bare", val |-> loads_bytes(raw).val]
      ELSE [kind |-> "invalid", val |-> None]

\* what main prints for the result r of decode_vpn_url under choice 2
Shows(r) == IF r.exc = "none" THEN ShowsJson(r.val) ELSE ShowsError(r.exc)

\* C10: every decoded buffer has exactly the outcome of the three-way rule,
\* Compressed, else Bare on the whole buffer, else Invalid with a ValueError,
\* and the value found is what decode goes on with
C10_ThreeOutcomes ==
  DecodedToJson =>
    LET rule == RuleOutcome(origin.buffer)
        got == json_data_of(origin.buffer)
    IN  /\ got.via = rule.kind
        /\ rule.kind = "invalid" => (got.exc = "ValueError" /\ ShowsError("ValueError"))
        /\ rule.kind # "invalid" =>
             /\ got.exc = "none"
             /\ json_text(got.val) = json_text(rule.val)
             /\ Shows(unwrap(rule.val))

\* a bare JSON buffer of 4 bytes or more went through the fallback
C10_Witness ==
  /\ DecodedDocument
  /\ origin.form = "bare"
  /\ Len(origin.buffer) >= 4
  /\ json_data_of(origin.buffer).via = "bare"
  /\ ShowsJson(FullConfig)

\* C9: a token that lost some or all of its trailing '=' is padded back to the
\* full encoding, by as many '=' as it lost and by none when it lost none, and
\* decodes to what the full encoding decodes to
C9_PaddingIsRestored ==
  DecodedToJson =>
    /\ add_padding(Tail2(src, 7)) = b64encode(origin.buffer)
    /\ Len(add_padding(Tail2(src, 7))) = Len(Tail2(src, 7)) + origin.dropped
    /\ Shows(decode_vpn_url(TokenOf(origin.buffer)))

\* a token without its two '=' decoded
C9_Witness ==
  /\ DecodedToJson
  /\ origin.dropped = 2
  /\ src = Txt(<< "v", "p", "n", ":", "/", "/", "M", "Q" >>)
  /\ ShowsJson(JInt(1))

-----------------------------------------------------------------------------
(***************************************************************************)
(* from_vless_url, seen through main: a vless:// line prints what it       *)
(* returns, or the error it raises.                                        *)
(***************************************************************************)
\* main has answered the vless:// line it read
FromUriDone == pc = "top" /\ origin.kind = "vless" /\ console # << >>

\* from_vless_url returned a configuration, which main printed
Accepted == FromUriDone /\ LastSaid.k = "json"

\* the URI was written with a port of one digit or more
PortIsNumeric(o) ==
  /\ Len(o.port) >= 2
  /\ \A j \in 2..Len(o.port) : IsDigit(o.port[j])

\* C5: from_vless_url raises, and returns no configuration, for every URI
\* whose port is absent or not numeric; a configuration is returned only
\* when the port is an integer, and then it carries that integer
C5_PortIsRequired ==
  FromUriDone =>
    /\ ~PortIsNumeric(origin) =>
         /\ ShowsSomeError
         /\ \A i \in 1..Len(console) : console[i].k # "json"
    /\ Accepted =>
         /\ PortIsNumeric(origin)
         /\ GetPath(LastSaid.v, VnextPath \o << Key(Txt(<< "p", "o", "r", "t" >>)) >>)
              = JInt(IntOf(Tail(origin.port)))

\* a URI without a port was refused
C5_Witness ==
  /\ FromUriDone
  /\ origin.port = << >>
  /\ ShowsError("TypeError")

\* where from_vless_url puts each query parameter, and the default it gives
FieldHomes ==
  << [param |-> Txt(<< "t", "y", "p", "e" >>), default |-> Txt(<< "t", "c", "p" >>), path |-> StreamPath, key |-> Txt(<< "n", "e", "t", "w", "o", "r", "k" >>)],
     [param |-> Txt(<< "s", "e", "c", "u", "r", "i", "t", "y" >>), default |-> Txt(<< "n", "o", "n", "e" >>), path |-> StreamPath, key |-> Txt(<< "s", "e", "c", "u", "r", "i", "t", "y" >>)],
     [param |-> Txt(<< "p", "b", "k" >>), default |-> << >>, path |-> RealityPath, key |-> Txt(<< "p", "u", "b", "l", "i", "c", "K", "e", "y" >>)],
     [param |-> Txt(<< "s", "n", "i" >>), default |-> << >>, path |-> RealityPath, key |-> Txt(<< "s", "e", "r", "v", "e", "r", "N", "a", "m", "e" >>)],
     [param |-> Txt(<< "f", "p" >>), default |-> << >>, path |-> RealityPath, key |-> Txt(<< "f", "i", "n", "g", "e", "r", "p", "r", "i", "n", "t" >>)],
     [param |-> Txt(<< "s", "i", "d" >>), default |-> << >>, path |-> RealityPath, key |-> Txt(<< "s", "h", "o", "r", "t", "I", "d" >>)],
     [param |-> Txt(<< "f", "l", "o", "w" >>), default |-> << >>, path |-> UserPath, key |-> Txt(<< "f", "l", "o", "w" >>)],
     [param |-> Txt(<< "s", "p", "x" >>), default |-> << >>, path |-> RealityPath, key |-> Txt(<< "s", "p", "i", "d", "e", "r", "X" >>)] >>

\* the values, percent-decoded and in order, that a URI gives a parameter
ValuesOf(params, name) ==
  LET hits == SelectSeq(params, LAMBDA p : p[1] = name)
  IN  [i \in 1..Len(hits) |-> unquote(hits[i][2])]

FirstOr(values, default) == IF values = << >> THEN default ELSE values[1]

NonEmpty(values) == SelectSeq(values, LAMBDA v : v # << >>)

\* the part of the configuration that no input changes
FixedPart(cfg) ==
  LET inbounds == Item(cfg, Txt(<< "i", "n", "b", "o", "u", "n", "d", "s" >>))
      inbound == inbounds.v[1]
  IN  /\ Len(inbounds.v) = 1
      /\ Item(inbound, Txt(<< "l", "i", "s", "t", "e", "n" >>)) = JStr(Txt(<< "1", "2", "7", ".", "0", ".", "0", ".", "1" >>))
      /\ Item(inbound, Txt(<< "p", "o", "r", "t" >>)) = JInt(10808)
      /\ Item(inbound, Txt(<< "p", "r", "o", "t", "o", "c", "o", "l" >>)) = JStr(Txt(<< "s", "o", "c", "k", "s" >>))
      /\ Item(Item(inbound, Txt(<< "s", "e", "t", "t", "i", "n", "g", "s" >>)), Txt(<< "u", "d", "p" >>)) = JBool(TRUE)
      /\ Item(Item(cfg, Txt(<< "l", "o", "g" >>)), Txt(<< "l", "o", "g", "l", "e", "v", "e", "l" >>)) = JStr(Txt(<< "e", "r", "r", "o", "r" >>))
      /\ GetPath(cfg, UserPath \o << Key(Txt(<< "e", "n", "c", "r", "y", "p", "t", "i", "o", "n" >>)) >>) = JStr(Txt(<< "n", "o", "n", "e" >>))

-----------------------------------------------------------------------------
(***************************************************************************)
(* to_vless_url, seen through main: a configuration typed as JSON, or      *)
(* decoded from a vpn:// token under choice 1, prints the URI it returns.  *)
(***************************************************************************)
\* to_vless_url returned a URI, which main printed
UrlPrinted == pc = "top" /\ console # << >> /\ LastSaid.k = "url"

\* the value at the end of a path of keys and indexes, or a default when a
\* step of the path is not there
RECURSIVE Lookup(_, _, _)
Lookup(x, path, default) ==
  IF path = << >> THEN x
  ELSE IF IsDict(x)
  THEN (IF HasKey(x, path[1].key)
        THEN Lookup(Item(x, path[1].key), Tail(path), default)
        ELSE default)
  ELSE IF IsList(x) /\ path[1].idx \in 1..Len(x.v)
  THEN Lookup(x.v[path[1].idx], Tail(path), default)
  ELSE default

\* the optional fields of a URI in the order they are written, with the place
\* of each in the configuration and the value an absent key stands for
UriFields ==
  << [name |-> Txt(<< "f", "l", "o", "w" >>), path |-> UserPath, key |-> Txt(<< "f", "l", "o", "w" >>), default |-> << >>],
     [name |-> Txt(<< "s", "e", "c", "u", "r", "i", "t", "y" >>), path |-> StreamPath, key |-> Txt(<< "s", "e", "c", "u", "r", "i", "t", "y" >>), default |-> Txt(<< "n", "o", "n", "e" >>)],
     [name |-> Txt(<< "s", "n", "i" >>), path |-> RealityPath, key |-> Txt(<< "s", "e", "r", "v", "e", "r", "N", "a", "m", "e" >>), default |-> << >>],
     [name |-> Txt(<< "f", "p" >>), path |-> RealityPath, key |-> Txt(<< "f", "i", "n", "g", "e", "r", "p", "r", "i", "n", "t" >>), default |-> << >>],
     [name |-> Txt(<< "p", "b", "k" >>), path |-> RealityPath, key |-> Txt(<< "p", "u", "b", "l", "i", "c", "K", "e", "y" >>), default |-> << >>],
     [name |-> Txt(<< "s", "i", "d" >>), path |-> RealityPath, key |-> Txt(<< "s", "h", "o", "r", "t", "I", "d" >>), default |-> << >>],
     [name |-> Txt(<< "s", "p", "x" >>), path |-> RealityPath, key |-> Txt(<< "s", "p", "i", "d", "e", "r", "X" >>), default |-> << >>],
     [name |-> Txt(<< "t", "y", "p", "e" >>), path |-> StreamPath, key |-> Txt(<< "n", "e", "t", "w", "o", "r", "k" >>), default |-> Txt(<< "t", "c", "p" >>)] >>

\* "&name=value" for the i-th optional field of cfg, nothing when it is empty
FieldText(cfg, i) ==
  LET value == Lookup(cfg, UriFields[i].path \o << Key(UriFields[i].key) >>,
                      JStr(UriFields[i].default))
  IN  IF Truthy(value)
      THEN << 38 >> \o UriFields[i].name \o << 61 >> \o Format(value)
      ELSE << >>

\* the answer read at the name prompt
NameAnswer ==
  LET reads == SelectSeq(console, LAMBDA e : e.by = "get_vless_name" /\ e.k = "read")
  IN  reads[Len(reads)].v

\* the display name: the line typed, stripped, or the address when the line
\* is blank or Ctrl+C was pressed
DisplayName(cfg) ==
  IF NameAnswer.k = "line" /\ Strip(NameAnswer.v) # << >>
  THEN Strip(NameAnswer.v)
  ELSE Format(GetPath(cfg, VnextPath \o << Key(Txt(<< "a", "d", "d", "r", "e", "s", "s" >>)) >>))

\* C6: the URI is vless://{uuid}@{address}:{port}?encryption=none, then the
\* non-empty ones of flow, security, sni, fp, pbk, sid, spx, type, once each
\* and in that order, then '#' and the display name
C6_UriLayout ==
  UrlPrinted =>
    LastSaid.v =
      Txt(<< "v", "l", "e", "s", "s", ":", "/", "/" >>) \o Format(GetPath(data, UserPath \o << Key(Txt(<< "i", "d" >>)) >>))
      \o << 64 >> \o Format(GetPath(data, VnextPath \o << Key(Txt(<< "a", "d", "d", "r", "e", "s", "s" >>)) >>))
      \o << 58 >> \o Format(GetPath(data, VnextPath \o << Key(Txt(<< "p", "o", "r", "t" >>)) >>))
      \o Txt(<< "?", "e", "n", "c", "r", "y", "p", "t", "i", "o", "n", "=", "n", "o", "n", "e" >>)
      \o Concat([i \in DOMAIN UriFields |-> FieldText(data, i)])
      \o << 35 >> \o DisplayName(data)

\* a configuration with an empty security and a network printed its URI,
\* named as typed
C6_Witness ==
  /\ UrlPrinted
  /\ origin.kind = "json"
  /\ origin.family = "fields"
  /\ origin.fields = {"flow", "network", "short_id"}
  /\ NameAnswer.k = "line"
  /\ LastSaid.v = Txt(<< "v", "l", "e", "s", "s", ":", "/", "/", "u", "@", "h", ":", "4", "4", "3", "?", "e", "n", "c", "r", "y", "p", "t", "i", "o", "n", "=", "n", "o", "n", "e", "&", "f", "l", "o", "w", "=", "f", "&", "s", "i", "d", "=", "i", "&", "t", "y", "p", "e", "=", "w", "s", "#", "m", "y" >>)

\* C3 as stated: a configuration in which a path to_vless_url descends is
\* absent or malformed is reported as an error, and the loop goes on
C3_BrokenConfigIsReported ==
  (origin.kind = "json" /\ origin.family = "broken") =>
    /\ exit = "running"
    /\ ShowsSomeError

\* C8 as stated: to_vless_url reads nothing from the console and writes
\* nothing to it; whatever is on the console is main's
C8_ToUriIsSilent == \A i \in 1..Len(console) : console[i].by = "main"

-----------------------------------------------------------------------------
(***************************************************************************)
(* The round trip of a URI: from_vless_url applied to a vless:// URI, then *)
(* to_vless_url applied to the configuration it returned.  pc is "uri"     *)
(* before from_vless_url, "config" after it returned and "refused" after   *)
(* it raised; to_vless_url leaves what it leaves under main.               *)
(***************************************************************************)
RoundTripInit ==
  /\ origin \in VlessOrigins
  /\ src = VlessLine(origin)
  /\ pc = "uri"
  /\ choice = << >>
  /\ data = None
  /\ pending = NoCall
  /\ console = << >>
  /\ exit = "running"

\* data = from_vless_url(src)
FromUri ==
  /\ pc = "uri"
  /\ Becomes(Bind(from_vless_url(src),
                  LAMBDA r :
                    IF r.exc = "none" THEN [State EXCEPT !.pc = "config", !.data = r.val]
                    ELSE Told([State EXCEPT !.pc = "refused"],
                              "from_vless_url", "raise", r.exc)))
  /\ UNCHANGED origin

\* to_vless_url(data), with what input() does in get_vless_name
ToUri(answer) ==
  /\ pc = "config"
  /\ Becomes(Bind(to_vless_url_call(State, data),
                  LAMBDA st :
                    IF st.pc = "name"
                    THEN after_name(Told(st, "get_vless_name", "read", answer), answer)
                    ELSE st))
  /\ UNCHANGED origin

RoundTripNext == FromUri \/ \E answer \in Answers(NameLines) : ToUri(answer)

RoundTrip == RoundTripInit /\ [][RoundTripNext]_vars

\* C2 as stated: the URI to_vless_url makes of from_vless_url(u) has the uuid,
\* address and port of u, and every optional field that is non-empty in u
\* with the same value; both URIs are read by from_vless_url, and u has a uuid
C2_RoundTripPreserves ==
  (UrlPrinted /\ origin.user # << >>) =>
    LET back == from_vless_url(LastSaid.v)
        same(path) == json_text(Lookup(back.val, path, None))
                        = json_text(Lookup(data, path, None))
    IN  /\ back.exc = "none"
        /\ same(UserPath \o << Key(Txt(<< "i", "d" >>)) >>)
        /\ same(VnextPath \o << Key(Txt(<< "a", "d", "d", "r", "e", "s", "s" >>)) >>)
        /\ same(VnextPath \o << Key(Txt(<< "p", "o", "r", "t" >>)) >>)
        /\ \A i \in DOMAIN FieldHomes :
             ValuesOf(origin.params, FieldHomes[i].param) # << >> =>
               same(FieldHomes[i].path \o << Key(FieldHomes[i].key) >>)

=============================================================================
